---- MODULE Spec2Model ----
(***************************************************************************)
(* Solar viability simulator (src/app.py): the submit handler of the       *)
(* Streamlit script, from the form to the financial tab, with the two      *)
(* st.cache_data-wrapped fetches it calls.                                 *)
(*                                                                         *)
(* Numbers.  Python floats are modelled as exact rational numbers, so an   *)
(* equality below is an equality of real numbers; the rounding of IEEE-754 *)
(* doubles is outside the model.  Two representations are used:            *)
(*   Rat  [n, d]        a normalised fraction of machine integers, for the *)
(*                      form inputs and the key calculations;              *)
(*   Num  [sg, mg, den] sign, magnitude (little-endian limbs in base       *)
(*                      LimbBase) and a bag of denominator factors, for    *)
(*                      the 26-period cash flow, whose numerators outgrow  *)
(*                      machine integers.                                  *)
(***************************************************************************)
EXTENDS Integers, Sequences, FiniteSets, Bags, TLC

VARIABLES
    pc,                 \* position in the script
    geo_up, pvgis_up,   \* environment: are Nominatim / PVGIS reachable during this run
    coord_cache,        \* st.cache_data store of get_coordinates, keyed by city
    pvgis_cache,        \* st.cache_data store of get_pvgis_data, keyed by <<lat, lon, perdas>>
    form,               \* the submitted form values
    lat, lon,           \* what get_coordinates returned
    pvgis_data,         \* what get_pvgis_data returned
    pvgis_called,       \* was get_pvgis_data invoked in this run
    shown,              \* what the run has put on the page (messages and verdicts)
    calc,               \* the key calculations (lines 106-121, 138-139)
    tma_anual,          \* discount rate read from the slider, as a fraction
    fluxo_caixa,        \* the cash-flow list
    economia_ano_a_ano, \* running savings of the loop
    vpl, tir,           \* npf.npv / npf.irr results
    vpl_anual,          \* cumulative NPV list
    payback_descontado_ano,
    geracao_estimada_kwh

vars == <<pc, geo_up, pvgis_up, coord_cache, pvgis_cache, form, lat, lon,
          pvgis_data, pvgis_called, shown, calc, tma_anual, fluxo_caixa,
          economia_ano_a_ano, vpl, tir, vpl_anual, payback_descontado_ano,
          geracao_estimada_kwh>>

None == [none |-> TRUE]           \* Python None
Inf == [inf |-> TRUE]             \* float('inf')
NaN == [nan |-> TRUE]             \* numpy nan
NaoAlcancado == [nao_alcancado |-> TRUE] \* "Nao alcancado"

(***************************************************************************)
(* Rat: exact fractions of machine integers.                               *)
(***************************************************************************)
Abs(x) == IF x < 0 THEN -x ELSE x

RECURSIVE Gcd(_, _)
Gcd(a, b) == IF b = 0 THEN a ELSE Gcd(b, a % b)

R(n, d) ==
    LET g == Gcd(Abs(n), Abs(d))
        s == IF d < 0 THEN -1 ELSE 1
    IN  [n |-> s * (n \div g), d |-> s * (d \div g)]

RInt(k) == [n |-> k, d |-> 1]
RZero == RInt(0)
ROne == RInt(1)

RAdd(x, y) ==
    LET g == Gcd(x.d, y.d)
    IN  R(x.n * (y.d \div g) + y.n * (x.d \div g), (x.d \div g) * y.d)
RNeg(x) == [n |-> -x.n, d |-> x.d]
RSub(x, y) == RAdd(x, RNeg(y))
RMul(x, y) ==
    LET a == R(x.n, y.d)
        b == R(y.n, x.d)
    IN  R(a.n * b.n, a.d * b.d)
RDiv(x, y) == RMul(x, R(y.d, y.n))
RLt(x, y) == RSub(x, y).n < 0
RLe(x, y) == RSub(x, y).n <= 0
RGt(x, y) == RLt(y, x)
RGe(x, y) == RLe(y, x)

RECURSIVE RSum(_)
RSum(s) == IF s = <<>> THEN RZero ELSE RAdd(Head(s), RSum(Tail(s)))

RECURSIVE RMin(_)
RMin(s) ==
    IF Len(s) = 1 THEN s[1]
    ELSE LET m == RMin(Tail(s)) IN IF RLt(m, s[1]) THEN m ELSE s[1]

(***************************************************************************)
(* Num: exact rationals with unbounded numerators.  A magnitude is a       *)
(* sequence of limbs, least significant first, without leading zero limbs  *)
(* (<<>> is 0).  The denominator is the product of the factors in den, a   *)
(* function from factor to multiplicity; it is never reduced.              *)
(***************************************************************************)
LimbBase == 10 ^ 4

RECURSIVE MagOfInt(_)
MagOfInt(k) == IF k = 0 THEN <<>> ELSE <<k % LimbBase>> \o MagOfInt(k \div LimbBase)

RECURSIVE MagMulFrom(_, _, _, _)
MagMulFrom(a, m, k, carry) ==
    IF k > Len(a)
    THEN MagOfInt(carry)
    ELSE LET p == a[k] * m + carry
         IN  <<p % LimbBase>> \o MagMulFrom(a, m, k + 1, p \div LimbBase)

\* a * m for a machine integer 0 <= m <= 200000
MagMul(a, m) == IF m = 0 \/ a = <<>> THEN <<>> ELSE MagMulFrom(a, m, 1, 0)

RECURSIVE MagPow(_, _, _)
MagPow(a, m, n) == IF n = 0 THEN a ELSE MagMul(MagPow(a, m, n - 1), m)

Limb(a, k) == IF k <= Len(a) THEN a[k] ELSE 0

RECURSIVE MagAddFrom(_, _, _, _)
MagAddFrom(a, b, k, carry) ==
    IF k > Len(a) /\ k > Len(b)
    THEN MagOfInt(carry)
    ELSE LET t == Limb(a, k) + Limb(b, k) + carry
         IN  <<t % LimbBase>> \o MagAddFrom(a, b, k + 1, t \div LimbBase)

MagAdd(a, b) == MagAddFrom(a, b, 1, 0)

RECURSIVE MagTrim(_)
MagTrim(a) ==
    IF a = <<>> \/ a[Len(a)] # 0 THEN a ELSE MagTrim(SubSeq(a, 1, Len(a) - 1))

RECURSIVE MagSubFrom(_, _, _, _)
MagSubFrom(a, b, k, borrow) ==
    IF k > Len(a)
    THEN <<>>
    ELSE LET t == a[k] - Limb(b, k) - borrow
         IN  IF t < 0
             THEN <<t + LimbBase>> \o MagSubFrom(a, b, k + 1, 1)
             ELSE <<t>> \o MagSubFrom(a, b, k + 1, 0)

\* a - b for a >= b
MagSub(a, b) == MagTrim(MagSubFrom(a, b, 1, 0))

RECURSIVE MagCmpFrom(_, _, _)
MagCmpFrom(a, b, k) ==
    IF k = 0 THEN 0
    ELSE IF a[k] > b[k] THEN 1
    ELSE IF a[k] < b[k] THEN -1
    ELSE MagCmpFrom(a, b, k - 1)

\* -1, 0, 1 as a < b, a = b, a > b
MagCmp(a, b) ==
    IF Len(a) > Len(b) THEN 1
    ELSE IF Len(a) < Len(b) THEN -1
    ELSE MagCmpFrom(a, b, Len(a))

Sgn(k) == IF k > 0 THEN 1 ELSE IF k < 0 THEN -1 ELSE 0

DenOne == [k \in {} |-> 0]
DenOf(d) == IF d = 1 THEN DenOne ELSE [k \in {d} |-> 1]
Mult(den, k) == IF k \in DOMAIN den THEN den[k] ELSE 0
DenMul(x, y) ==
    [k \in DOMAIN x \cup DOMAIN y |-> Mult(x, k) + Mult(y, k)]
DenLcm(x, y) ==
    [k \in DOMAIN x \cup DOMAIN y |->
        IF Mult(x, k) > Mult(y, k) THEN Mult(x, k) ELSE Mult(y, k)]

\* a times the factors that den lacks to make up common
RECURSIVE MagScale(_, _, _, _)
MagScale(a, den, common, todo) ==
    IF todo = {} THEN a
    ELSE LET k == CHOOSE x \in todo : \A y \in todo : x <= y
         IN  MagScale(MagPow(a, k, common[k] - Mult(den, k)), den, common, todo \ {k})

MkNum(sg, mg, den) ==
    [sg |-> IF mg = <<>> THEN 0 ELSE sg, mg |-> mg, den |-> den]

NumOfRat(r) == MkNum(Sgn(r.n), MagOfInt(Abs(r.n)), DenOf(r.d))
NZero == NumOfRat(RZero)
NNeg(x) == MkNum(-x.sg, x.mg, x.den)
NMulRat(x, r) == MkNum(x.sg * Sgn(r.n), MagMul(x.mg, Abs(r.n)), DenMul(x.den, DenOf(r.d)))
NDivRat(x, r) == NMulRat(x, R(r.d, r.n))
\* x / r ^ t for a Rat r > 0
NDivPow(x, r, t) ==
    MkNum(x.sg, MagPow(x.mg, r.d, t),
          IF t = 0 \/ r.n = 1 THEN x.den ELSE DenMul(x.den, [k \in {r.n} |-> t]))

NAdd(x, y) ==
    LET common == DenLcm(x.den, y.den)
        a == MagScale(x.mg, x.den, common, DOMAIN common)
        b == MagScale(y.mg, y.den, common, DOMAIN common)
        c == MagCmp(a, b)
    IN  IF x.sg = 0 THEN y
        ELSE IF y.sg = 0 THEN x
        ELSE IF x.sg = y.sg THEN MkNum(x.sg, MagAdd(a, b), common)
        ELSE IF c = 0 THEN MkNum(0, <<>>, common)
        ELSE IF c > 0 THEN MkNum(x.sg, MagSub(a, b), common)
        ELSE MkNum(y.sg, MagSub(b, a), common)

NSub(x, y) == NAdd(x, NNeg(y))
NSign(x) == x.sg
NEq(x, y) == NSign(NSub(x, y)) = 0
NGt(x, y) == NSign(NSub(x, y)) > 0

(***************************************************************************)
(* The form (lines 57-86) and the values the model submits.                *)
(***************************************************************************)
MinConsumo == 50            \* number_input min_value
ConsumoStep == 10           \* number_input step
MaxConsumoSteps == 3        \* the model submits MinConsumo + ConsumoStep * (0..MaxConsumoSteps)
MargemStep == 15
MaxMargemSteps == 1         \* the model submits margins MargemStep * (0..MaxMargemSteps)

Consumos == {MinConsumo + ConsumoStep * k : k \in 0..MaxConsumoSteps}
Margens == {MargemStep * k : k \in 0..MaxMargemSteps}
Tipos == {"Monofasico", "Bifasico", "Trifasico"}
Inflacoes == {RInt(1), RInt(7)}         \* slider 1.0 .. 15.0
TMAs == {RInt(10), RInt(20)}            \* slider 1.0 .. 20.0, default 10.0
PerdasDefault == 14                     \* slider default

CidadeFeira == "Feira de Santana, BA"   \* found, lat and lon nonzero
CidadeEquador == "Equador"              \* found, lat = 0.0
CidadePolar == "Polar"                  \* found, lon = 0.0, polar night in the profile
CidadeNenhuma == "Nenhuma"              \* no match
Cidades == {CidadeFeira, CidadeEquador, CidadePolar, CidadeNenhuma, ""}
SessionCidades == {CidadeFeira, CidadeNenhuma, ""}

BaseForm ==
    [cidade |-> CidadeFeira, consumo_mensal_kwh |-> 80, tarifa_energia |-> R(198, 100),
     custo_watt_pico_modulo |-> R(55, 100), custo_bos_watt_pico |-> R(80, 100),
     tipo_conexao |-> "Bifasico", perdas_sistema |-> PerdasDefault,
     margem_geracao_percent |-> 0, inflacao_energia |-> RInt(7)]

\* Consumption and connection type vary together; margin and inflation vary
\* around the base point.
Forms(cidades) ==
    {[BaseForm EXCEPT !.cidade = c, !.consumo_mensal_kwh = k, !.tipo_conexao = t]
        : c \in cidades, k \in Consumos, t \in Tipos}
    \cup
    {[BaseForm EXCEPT !.cidade = c, !.margem_geracao_percent = m, !.inflacao_energia = i]
        : c \in cidades, m \in Margens, i \in Inflacoes}

SessionForms == {[BaseForm EXCEPT !.cidade = c] : c \in SessionCidades}

(***************************************************************************)
(* The two external services.                                              *)
(***************************************************************************)
\* Nominatim's answer to q = city, limit = 1: a list of at most one match.
NominatimSearch(city) ==
    IF city = CidadeFeira THEN <<[lat |-> R(-1227, 100), lon |-> R(-3897, 100)]>>
    ELSE IF city = CidadeEquador THEN <<[lat |-> RZero, lon |-> R(10933, 100)]>>
    ELSE IF city = CidadePolar THEN <<[lat |-> R(7850, 100), lon |-> RZero]>>
    ELSE <<>>

\* E_m of outputs.monthly.fixed for 1 kWp, kWh per month.
ProfileTropical ==
    <<RInt(150), RInt(140), RInt(130), RInt(120), RInt(110), RInt(100),
      RInt(100), RInt(110), RInt(120), RInt(130), RInt(140), RInt(150)>>
ProfilePolar ==
    <<RZero, RZero, RInt(30), RInt(90), RInt(150), RInt(180),
      RInt(170), RInt(120), RInt(60), RInt(20), RZero, RZero>>

PVcalc(la, lo, perdas) ==
    [E_m |-> IF RGt(la, RInt(66)) THEN ProfilePolar ELSE ProfileTropical]

\* Python truthiness of None, a float, a string or a dict
Falsy(v) == v = None \/ v = RZero

\* get_coordinates' body (lines 19-30): what it returns when it is executed
get_coordinates(city, reachable) ==
    IF ~reachable THEN <<None, None>>                 \* RequestException
    ELSE LET data == NominatimSearch(city)
         IN  IF data # <<>> THEN <<data[1].lat, data[1].lon>> ELSE <<None, None>>

\* get_pvgis_data's body (lines 35-50)
get_pvgis_data(la, lo, perdas, reachable) ==
    IF ~reachable THEN None ELSE PVcalc(la, lo, perdas)

\* st.cache_data: the stored return value for these arguments if there is
\* one, else the body's return value, which is stored.
CachedCall(cache, key, body) == IF key \in DOMAIN cache THEN cache[key] ELSE body
CacheStore(cache, key, body) ==
    IF key \in DOMAIN cache THEN cache
    ELSE [k \in DOMAIN cache \cup {key} |-> IF k = key THEN body ELSE cache[k]]

(***************************************************************************)
(* Key calculations (lines 105-121) and environmental figures (138-139).   *)
(***************************************************************************)
Years == 25                 \* range(1, 26)
degradacao_paineis_anual == R(5, 1000)

mapa_disponibilidade(tipo) ==
    IF tipo = "Monofasico" THEN 30 ELSE IF tipo = "Bifasico" THEN 50 ELSE 100

\* variant: sizing for the average month
pior_mes_media(E_m) == RDiv(RSum(E_m), RInt(Len(E_m)))

\* df['E_m'].min()
pior_mes(E_m) == RMin(E_m)

tamanho_sistema(consumo_desejado_kwh, pior_mes_geracao_por_kwp) ==
    IF RGt(pior_mes_geracao_por_kwp, RZero)
    THEN RDiv(consumo_desejado_kwh, pior_mes_geracao_por_kwp)
    ELSE RZero

\* variant: savings clamped at zero
economia_liquida_clamped(economia_anual_bruta, custo_disponibilidade_mensal) ==
    LET e == RSub(economia_anual_bruta, RMul(custo_disponibilidade_mensal, RInt(12)))
    IN  IF RLt(e, RZero) THEN RZero ELSE e

economia_liquida(economia_anual_bruta, custo_disponibilidade_mensal) ==
    RSub(economia_anual_bruta, RMul(custo_disponibilidade_mensal, RInt(12)))

\* variant: the savings of the division carry one year of growth and decay
payback_simples_ajustado(custo_estimado_sistema, economia_anual_liquida) ==
    IF RGt(economia_anual_liquida, RZero)
    THEN RDiv(custo_estimado_sistema,
              RMul(economia_anual_liquida, RMul(R(107, 100), R(995, 1000))))
    ELSE Inf

payback_simples(custo_estimado_sistema, economia_anual_liquida) ==
    IF RGt(economia_anual_liquida, RZero)
    THEN RDiv(custo_estimado_sistema, economia_anual_liquida)
    ELSE Inf

KeyCalculations(f, data) ==
    LET disponibilidade_kwh == mapa_disponibilidade(f.tipo_conexao)
        custo_disponibilidade_mensal == RMul(RInt(disponibilidade_kwh), f.tarifa_energia)
        pior_mes_geracao_por_kwp == pior_mes(data.E_m)
        consumo_desejado_kwh ==
            RMul(RInt(f.consumo_mensal_kwh),
                 RAdd(ROne, R(f.margem_geracao_percent, 100)))
        tamanho_sistema_kwp == tamanho_sistema(consumo_desejado_kwh, pior_mes_geracao_por_kwp)
        geracao_anual_estimada == RMul(RSum(data.E_m), tamanho_sistema_kwp)
        custo_total_watt_pico == RAdd(f.custo_watt_pico_modulo, f.custo_bos_watt_pico)
        custo_estimado_sistema ==
            RMul(RMul(tamanho_sistema_kwp, custo_total_watt_pico), RInt(1000))
        economia_anual_bruta == RMul(geracao_anual_estimada, f.tarifa_energia)
        economia_anual_liquida ==
            economia_liquida(economia_anual_bruta, custo_disponibilidade_mensal)
        co2_evitado_ton ==
            RDiv(RMul(RMul(geracao_anual_estimada, RInt(25)), R(475, 1000)), RInt(1000))
    IN  [disponibilidade_kwh |-> disponibilidade_kwh,
         custo_disponibilidade_mensal |-> custo_disponibilidade_mensal,
         pior_mes_geracao_por_kwp |-> pior_mes_geracao_por_kwp,
         consumo_desejado_kwh |-> consumo_desejado_kwh,
         tamanho_sistema_kwp |-> tamanho_sistema_kwp,
         geracao_anual_estimada |-> geracao_anual_estimada,
         custo_estimado_sistema |-> custo_estimado_sistema,
         economia_anual_bruta |-> economia_anual_bruta,
         economia_anual_liquida |-> economia_anual_liquida,
         payback_simples_anos |-> payback_simples(custo_estimado_sistema, economia_anual_liquida),
         co2_evitado_ton |-> co2_evitado_ton,
         arvores_equivalentes |-> RMul(co2_evitado_ton, R(714, 100))]

(***************************************************************************)
(* Financial functions (numpy_financial) and the payback scan.             *)
(***************************************************************************)
\* (1 + inflacao_energia / 100) * (1 - degradacao_paineis_anual), line 161
fator_anual(inflacao_energia) ==
    RMul(RAdd(ROne, RDiv(inflacao_energia, RInt(100))),
         RSub(ROne, degradacao_paineis_anual))

\* v / (1 + rate) ^ t
Discounted(v, rate, t) == NDivPow(v, RAdd(ROne, rate), t)

\* the sum of values[t] / (1 + rate) ^ t over t = lo .. hi (0-based), by halves
RECURSIVE DiscountedSum(_, _, _, _)
DiscountedSum(rate, values, lo, hi) ==
    IF lo > hi THEN NZero
    ELSE IF lo = hi THEN Discounted(values[lo + 1], rate, lo)
    ELSE LET mid == (lo + hi) \div 2
         IN  NAdd(DiscountedSum(rate, values, lo, mid),
                  DiscountedSum(rate, values, mid + 1, hi))

\* npf.npv(rate, values): the sum over t = 0 .. len - 1 of values[t] / (1 + rate) ^ t
npv(rate, values) == DiscountedSum(rate, values, 0, Len(values) - 1)

\* npf.irr(values): a rate at which the NPV of values is zero, nan when there
\* is none.  Every series built here is -cost (<= 0) followed by savings of
\* one sign, so a rate exists exactly when a negative and a positive entry
\* both occur, and it is then unique.  Only nan-ness is kept; the rate is
\* compared through IrrGreater.
irr(values) ==
    IF (\E i \in DOMAIN values : NSign(values[i]) < 0)
       /\ (\E i \in DOMAIN values : NSign(values[i]) > 0)
    THEN [nan |-> FALSE]
    ELSE NaN

\* tir > tma_anual * 100 (line 175).  A comparison with nan is False; for an
\* outlay followed by positive savings the NPV falls as the rate rises, so
\* the root lies above rate exactly when the NPV at rate is positive.
IrrGreater(t, values, rate) == t # NaN /\ NSign(npv(rate, values)) > 0

\* lines 184-188: the first index whose cumulative NPV passes the test
RECURSIVE PaybackFrom(_, _)
\* variant: the test of the scan accepts zero
PaybackNonNegative(vpl_valor) == NSign(vpl_valor) >= 0
\* line 186: if vpl_valor > 0
PaybackPositive(vpl_valor) == NSign(vpl_valor) > 0
PaybackFrom(valores, ano) ==
    IF ano >= Len(valores) THEN NaoAlcancado
    ELSE IF PaybackPositive(valores[ano + 1]) THEN [anos |-> ano]
    ELSE PaybackFrom(valores, ano + 1)
payback_descontado(valores) == PaybackFrom(valores, 0)

(***************************************************************************)
(* The script.                                                             *)
(***************************************************************************)
NoForm == [cidade |-> None]

RunLocals ==
    /\ lat = None /\ lon = None
    /\ pvgis_data = None
    /\ pvgis_called = FALSE
    /\ shown = {}
    /\ calc = None
    /\ tma_anual = None
    /\ fluxo_caixa = <<>>
    /\ economia_ano_a_ano = None
    /\ vpl = None /\ tir = None
    /\ vpl_anual = <<>>
    /\ payback_descontado_ano = None
    /\ geracao_estimada_kwh = <<>>

Init ==
    /\ pc = "form"
    /\ geo_up = TRUE /\ pvgis_up = TRUE
    /\ coord_cache = <<>>
    /\ pvgis_cache = <<>>
    /\ form = NoForm
    /\ RunLocals

\* lines 89-91: the button is pressed with the form as filled in
Submit(f, g, p) ==
    /\ pc = "form"
    /\ form' = f
    /\ geo_up' = g /\ pvgis_up' = p
    /\ IF f.cidade = "" \/ f.consumo_mensal_kwh = 0
       THEN shown' = {"warning_preencha"} /\ pc' = "done"
       ELSE shown' = shown /\ pc' = "get_coordinates"
    /\ UNCHANGED <<coord_cache, pvgis_cache, lat, lon, pvgis_data, pvgis_called, calc,
                   tma_anual, fluxo_caixa, economia_ano_a_ano, vpl, tir, vpl_anual,
                   payback_descontado_ano, geracao_estimada_kwh>>

\* line 94: if not lat
LocationMissing(la, lo) == Falsy(la)

\* lines 93-95
GetCoordinates ==
    /\ pc = "get_coordinates"
    /\ LET body == get_coordinates(form.cidade, geo_up)
           r == CachedCall(coord_cache, form.cidade, body)
       IN  /\ coord_cache' = CacheStore(coord_cache, form.cidade, body)
           /\ lat' = r[1] /\ lon' = r[2]
           /\ IF LocationMissing(r[1], r[2])
              THEN shown' = shown \cup {"error_coordenadas"} /\ pc' = "done"
              ELSE shown' = shown /\ pc' = "get_pvgis"
    /\ UNCHANGED <<geo_up, pvgis_up, pvgis_cache, form, pvgis_data, pvgis_called, calc,
                   tma_anual, fluxo_caixa, economia_ano_a_ano, vpl, tir, vpl_anual,
                   payback_descontado_ano, geracao_estimada_kwh>>

\* variant: the guard of line 100 never fires
IrradianceNeverMissing(data) == FALSE
\* line 100: if not pvgis_data
IrradianceMissing(data) == Falsy(data)

\* lines 97-103
GetPvgisData ==
    /\ pc = "get_pvgis"
    /\ LET key == <<lat, lon, form.perdas_sistema>>
           body == get_pvgis_data(lat, lon, form.perdas_sistema, pvgis_up)
           r == CachedCall(pvgis_cache, key, body)
       IN  /\ pvgis_cache' = CacheStore(pvgis_cache, key, body)
           /\ pvgis_data' = r
           /\ pvgis_called' = TRUE
           /\ IF IrradianceMissing(r)
              THEN shown' = shown \cup {"error_pvgis"} /\ pc' = "done"
              ELSE shown' = shown \cup {"header_resultados"} /\ pc' = "key_calcs"
    /\ UNCHANGED <<geo_up, pvgis_up, coord_cache, form, lat, lon, calc,
                   tma_anual, fluxo_caixa, economia_ano_a_ano, vpl, tir, vpl_anual,
                   payback_descontado_ano, geracao_estimada_kwh>>

\* lines 105-145: key calculations and the summary tab
KeyCalcs ==
    /\ pc = "key_calcs"
    /\ calc' = KeyCalculations(form, pvgis_data)
    /\ shown' = shown \cup {"resumo", "ambiental"}
    /\ pc' = "financeiro"
    /\ UNCHANGED <<geo_up, pvgis_up, coord_cache, pvgis_cache, form, lat, lon, pvgis_data,
                   pvgis_called, tma_anual, fluxo_caixa, economia_ano_a_ano, vpl, tir,
                   vpl_anual, payback_descontado_ano, geracao_estimada_kwh>>

\* lines 152-157: the slider is read, the list starts with the outlay
Financeiro(tma) ==
    /\ pc = "financeiro"
    /\ tma_anual' = RDiv(tma, RInt(100))
    /\ fluxo_caixa' = <<NNeg(NumOfRat(calc.custo_estimado_sistema))>>
    /\ economia_ano_a_ano' = NumOfRat(calc.economia_anual_liquida)
    /\ pc' = "fluxo_loop"
    /\ UNCHANGED <<geo_up, pvgis_up, coord_cache, pvgis_cache, form, lat, lon, pvgis_data,
                   pvgis_called, shown, calc, vpl, tir, vpl_anual,
                   payback_descontado_ano, geracao_estimada_kwh>>

\* lines 159-161: one iteration of for ano in range(1, 26)
FluxoAppend(lista, economia) == Append(lista, economia)
\* variant: the update leaves the degradation out
FluxoUpdateSemDegradacao(economia, inflacao) ==
    NMulRat(economia, RAdd(ROne, RDiv(inflacao, RInt(100))))
FluxoUpdate(economia, inflacao) == NMulRat(economia, fator_anual(inflacao))

FluxoStep ==
    /\ pc = "fluxo_loop"
    /\ Len(fluxo_caixa) <= Years
    /\ fluxo_caixa' = FluxoAppend(fluxo_caixa, economia_ano_a_ano)
    /\ economia_ano_a_ano' = FluxoUpdate(economia_ano_a_ano, form.inflacao_energia)
    /\ UNCHANGED <<pc, geo_up, pvgis_up, coord_cache, pvgis_cache, form, lat, lon,
                   pvgis_data, pvgis_called, shown, calc, tma_anual, vpl, tir, vpl_anual,
                   payback_descontado_ano, geracao_estimada_kwh>>

\* lines 163-176: NPV, IRR and the two verdicts
Metrics ==
    /\ pc = "fluxo_loop"
    /\ Len(fluxo_caixa) > Years
    /\ LET v == npv(tma_anual, fluxo_caixa)
           t == irr(fluxo_caixa)
       IN  /\ vpl' = v
           /\ tir' = t
           /\ shown' = shown
                \cup {"metric_vpl", "metric_tir"}
                \cup {IF NSign(v) > 0 THEN "vpl_viavel" ELSE "vpl_negativo"}
                \cup {IF IrrGreater(t, fluxo_caixa, tma_anual)
                      THEN "tir_maior_que_tma" ELSE "tir_menor_que_tma"}
    /\ pc' = "vpl_anual"
    /\ UNCHANGED <<geo_up, pvgis_up, coord_cache, pvgis_cache, form, lat, lon, pvgis_data,
                   pvgis_called, calc, tma_anual, fluxo_caixa, economia_ano_a_ano,
                   vpl_anual, payback_descontado_ano, geracao_estimada_kwh>>

\* line 181
VplAnual ==
    /\ pc = "vpl_anual"
    /\ vpl_anual' = [i \in 1..Len(fluxo_caixa) |-> npv(tma_anual, SubSeq(fluxo_caixa, 1, i))]
    /\ pc' = "payback"
    /\ UNCHANGED <<geo_up, pvgis_up, coord_cache, pvgis_cache, form, lat, lon, pvgis_data,
                   pvgis_called, shown, calc, tma_anual, fluxo_caixa, economia_ano_a_ano,
                   vpl, tir, payback_descontado_ano, geracao_estimada_kwh>>

\* lines 184-192
Payback ==
    /\ pc = "payback"
    /\ payback_descontado_ano' = payback_descontado(vpl_anual)
    /\ shown' = shown \cup {"metric_payback_simples", "metric_payback_descontado"}
    /\ pc' = "grafico"
    /\ UNCHANGED <<geo_up, pvgis_up, coord_cache, pvgis_cache, form, lat, lon, pvgis_data,
                   pvgis_called, calc, tma_anual, fluxo_caixa, economia_ano_a_ano,
                   vpl, tir, vpl_anual, geracao_estimada_kwh>>

\* line 199
Grafico ==
    /\ pc = "grafico"
    /\ geracao_estimada_kwh' =
        [m \in 1..Len(pvgis_data.E_m) |-> RMul(pvgis_data.E_m[m], calc.tamanho_sistema_kwp)]
    /\ pc' = "done"
    /\ UNCHANGED <<geo_up, pvgis_up, coord_cache, pvgis_cache, form, lat, lon, pvgis_data,
                   pvgis_called, shown, calc, tma_anual, fluxo_caixa, economia_ano_a_ano,
                   vpl, tir, vpl_anual, payback_descontado_ano>>

\* The next interaction reruns the script: its locals start afresh, the
\* st.cache_data stores live on in the server process.
Rerun ==
    /\ pc = "done"
    /\ pc' = "form"
    /\ form' = NoForm
    /\ lat' = None /\ lon' = None
    /\ pvgis_data' = None
    /\ pvgis_called' = FALSE
    /\ shown' = {}
    /\ calc' = None
    /\ tma_anual' = None
    /\ fluxo_caixa' = <<>>
    /\ economia_ano_a_ano' = None
    /\ vpl' = None /\ tir' = None
    /\ vpl_anual' = <<>>
    /\ payback_descontado_ano' = None
    /\ geracao_estimada_kwh' = <<>>
    /\ UNCHANGED <<geo_up, pvgis_up, coord_cache, pvgis_cache>>

Run ==
    \/ GetCoordinates
    \/ GetPvgisData
    \/ KeyCalcs
    \/ \E tma \in TMAs : Financeiro(tma)
    \/ FluxoStep
    \/ Metrics
    \/ VplAnual
    \/ Payback
    \/ Grafico

\* One run of the script on a fresh server, over the whole input space.
Next ==
    \/ \E f \in Forms(Cidades), g \in BOOLEAN, p \in BOOLEAN : Submit(f, g, p)
    \/ Run

Spec == Init /\ [][Next]_vars

\* A session: run after run against the same caches.
NextSession ==
    \/ \E f \in SessionForms, g \in BOOLEAN, p \in BOOLEAN : Submit(f, g, p)
    \/ Run
    \/ Rerun

SpecSession == Init /\ [][NextSession]_vars

(***************************************************************************)
(* Properties.                                                             *)
(***************************************************************************)
GeocodeReturned == pc \notin {"form", "get_coordinates"} /\ "warning_preencha" \notin shown
ResultTags ==
    {"header_resultados", "resumo", "ambiental", "metric_vpl", "metric_tir", "vpl_viavel",
     "vpl_negativo", "tir_maior_que_tma", "tir_menor_que_tma", "metric_payback_simples",
     "metric_payback_descontado"}
NoResults ==
    /\ calc = None
    /\ fluxo_caixa = <<>>
    /\ vpl = None /\ tir = None
    /\ vpl_anual = <<>>
    /\ payback_descontado_ano = None
    /\ geracao_estimada_kwh = <<>>
    /\ shown \cap ResultTags = {}
WorstMonth == RMin(pvgis_data.E_m)

\* C1: a run whose geocoding returned no location, or whose irradiance fetch
\* returned nothing, has ended with the matching error message and without
\* any sizing, cash-flow, financial or environmental value computed or
\* shown; and get_pvgis_data is never invoked without a location.
C1_FailedFetchStopsRun ==
    /\ (GeocodeReturned /\ lat = None) =>
            /\ pc = "done"
            /\ "error_coordenadas" \in shown
            /\ ~pvgis_called
            /\ NoResults
    /\ (pvgis_called /\ pvgis_data = None) =>
            /\ pc = "done"
            /\ "error_pvgis" \in shown
            /\ NoResults
    /\ pvgis_called => lat # None

C1_Witness ==
    /\ pc = "done"
    /\ pvgis_called /\ pvgis_data = None
    /\ lat # None
    /\ "error_pvgis" \in shown

\* C2: the run shows the location-not-found error if and only if
\* get_coordinates returned no location; every location it returns, a
\* latitude or longitude of 0 included, takes the run on to the irradiance
\* fetch.
C2_NotFoundIffNoLocation ==
    GeocodeReturned =>
        /\ ("error_coordenadas" \in shown) <=> (lat = None)
        /\ lat # None => pvgis_called \/ pc = "get_pvgis"

\* C3: a worst-month generation factor <= 0 ends the run in a
\* degenerate-sizing failure before any installation cost, net savings,
\* cash flow or financial metric is computed.
C3_DegenerateSizingFails ==
    (pvgis_data # None /\ RLe(WorstMonth, RZero) /\ pc # "key_calcs") =>
        /\ pc = "done"
        /\ calc = None
        /\ fluxo_caixa = <<>>
        /\ vpl = None /\ tir = None
        /\ payback_descontado_ano = None

PaybackReported == payback_descontado_ano # None

\* the cumulative NPV at index t (0-based), from the list the run built
CumNpv(t) == vpl_anual[t + 1]
Horizon == 0..Years

\* vpl_anual is the running discounted sum of the cash flow
IsCumulativeNpv ==
    /\ Len(vpl_anual) = Years + 1
    /\ NEq(CumNpv(0), fluxo_caixa[1])
    /\ \A t \in 1..Years :
          NEq(NSub(CumNpv(t), CumNpv(t - 1)), Discounted(fluxo_caixa[t + 1], tma_anual, t))

\* C4 as stated: the discounted payback year is the smallest index t in
\* 0..25 whose cumulative NPV is >= 0, and "not reached" is reported if and
\* only if no index has a cumulative NPV >= 0.
C4_PaybackFirstNonNegative ==
    PaybackReported =>
        /\ IsCumulativeNpv
        /\ (payback_descontado_ano = NaoAlcancado) <=>
                (\A t \in Horizon : NSign(CumNpv(t)) < 0)
        /\ payback_descontado_ano # NaoAlcancado =>
                /\ payback_descontado_ano.anos \in Horizon
                /\ NSign(CumNpv(payback_descontado_ano.anos)) >= 0
                /\ \A t \in 0..(payback_descontado_ano.anos - 1) : NSign(CumNpv(t)) < 0

\* C4 amended: the discounted payback year is the smallest index t in 0..25
\* whose cumulative NPV is > 0 (at every earlier index it is <= 0), and
\* "not reached" is reported if and only if no index has a cumulative NPV > 0.
C4_PaybackFirstPositive ==
    PaybackReported =>
        /\ IsCumulativeNpv
        /\ (payback_descontado_ano = NaoAlcancado) <=>
                (\A t \in Horizon : NSign(CumNpv(t)) <= 0)
        /\ payback_descontado_ano # NaoAlcancado =>
                /\ payback_descontado_ano.anos \in Horizon
                /\ NSign(CumNpv(payback_descontado_ano.anos)) > 0
                /\ \A t \in 0..(payback_descontado_ano.anos - 1) : NSign(CumNpv(t)) <= 0

\* a run whose cumulative NPV is exactly zero in year 1 and positive in year 2
C4_Witness ==
    /\ pc = "done"
    /\ PaybackReported
    /\ RGt(WorstMonth, RZero)
    /\ NSign(CumNpv(0)) < 0
    /\ NSign(CumNpv(1)) = 0
    /\ payback_descontado_ano = [anos |-> 2]

NoSignChange ==
    /\ RGt(calc.custo_estimado_sistema, RZero)
    /\ RLe(calc.economia_anual_liquida, RZero)

\* C5: when the installation cost is > 0 and no yearly saving is > 0, the
\* run does not fail, the IRR is reported as undefined and is not presented
\* as an IRR below the discount rate, the NPV and the discounted payback are
\* still reported, and with zero savings the NPV is -installation cost and
\* the discounted payback is "not reached".
C5_UndefinedIrrIsExplicit ==
    (pc = "done" /\ calc # None /\ NoSignChange) =>
        /\ tir = NaN
        /\ "tir_menor_que_tma" \notin shown
        /\ "tir_maior_que_tma" \notin shown
        /\ {"metric_vpl", "metric_payback_descontado"} \subseteq shown
        /\ calc.economia_anual_liquida = RZero =>
                /\ NEq(vpl, NNeg(NumOfRat(calc.custo_estimado_sistema)))
                /\ payback_descontado_ano = NaoAlcancado

\* C6: the finished cash flow has 26 entries, entry 0 is -installation cost,
\* entry 1 is the initial net annual savings, entry k+1 is entry k times
\* (1 + inflation/100) times (1 - 0.005) for k in 1..24, and no step of the
\* loop changes an entry already appended.
FluxoEntry(k) == fluxo_caixa[k + 1]
C6_Finished ==
    (pc \notin {"form", "get_coordinates", "get_pvgis", "key_calcs", "financeiro", "fluxo_loop"}
        /\ calc # None) =>
        /\ Len(fluxo_caixa) = 26
        /\ NEq(FluxoEntry(0), NNeg(NumOfRat(calc.custo_estimado_sistema)))
        /\ NEq(FluxoEntry(1), NumOfRat(calc.economia_anual_liquida))
        /\ \A k \in 1..24 :
              NEq(FluxoEntry(k + 1),
                  NMulRat(NMulRat(FluxoEntry(k),
                                  RAdd(ROne, R(form.inflacao_energia.n,
                                               100 * form.inflacao_energia.d))),
                          RSub(ROne, R(5, 1000))))
C6_AppendOnly ==
    fluxo_caixa # <<>> =>
        \/ fluxo_caixa' = <<>>
        \/ /\ Len(fluxo_caixa') \in {Len(fluxo_caixa), Len(fluxo_caixa) + 1}
           /\ SubSeq(fluxo_caixa', 1, Len(fluxo_caixa)) = fluxo_caixa
C6_CashFlowSeries == [](C6_Finished) /\ [][C6_AppendOnly]_vars

C6_Witness ==
    /\ pc = "done"
    /\ Len(fluxo_caixa) = 26
    /\ NSign(FluxoEntry(0)) < 0
    /\ NSign(FluxoEntry(25)) > 0
    /\ NGt(FluxoEntry(25), FluxoEntry(1))

TargetKwh ==
    RDiv(RInt(form.consumo_mensal_kwh * (100 + form.margem_geracao_percent)), RInt(100))

AvailabilityKwh ==
    CASE form.tipo_conexao = "Monofasico" -> 30
      [] form.tipo_conexao = "Bifasico" -> 50
      [] form.tipo_conexao = "Trifasico" -> 100

\* C8: for every connection type, net annual savings = annual generation *
\* tariff - availability kWh * tariff * 12 with 30, 50 and 100 kWh for
\* Monofasico, Bifasico and Trifasico; the result is never clamped at zero,
\* and a negative result is entry 1 of the cash flow, without a failure.
C8_NetSavings ==
    calc # None =>
        /\ calc.economia_anual_liquida =
              RSub(RMul(calc.geracao_anual_estimada, form.tarifa_energia),
                   RMul(RMul(RInt(AvailabilityKwh), form.tarifa_energia), RInt(12)))
        /\ Len(fluxo_caixa) >= 2 =>
              NEq(fluxo_caixa[2], NumOfRat(calc.economia_anual_liquida))
        /\ shown \cap {"warning_preencha", "error_coordenadas", "error_pvgis"} = {}

\* a finished run whose net savings are negative and stand in the cash flow
C8_Witness ==
    /\ pc = "done"
    /\ calc # None
    /\ RGt(calc.custo_estimado_sistema, RZero)
    /\ RLt(calc.economia_anual_liquida, RZero)
    /\ NSign(fluxo_caixa[2]) < 0

\* C9: simple payback is installation cost / year-1 net savings whenever the
\* net savings are > 0 and is infinite exactly when they are <= 0; it is
\* fixed by the key calculations, whatever the inflation and the discount
\* rate the run goes on to use.
C9_SimplePayback ==
    calc # None =>
        /\ (calc.payback_simples_anos = Inf) <=> RLe(calc.economia_anual_liquida, RZero)
        /\ RGt(calc.economia_anual_liquida, RZero) =>
              RMul(calc.payback_simples_anos, calc.economia_anual_liquida)
                  = calc.custo_estimado_sistema

\* a finished run at 20 % discount rate and 1 % inflation with a finite payback
C9_Witness ==
    /\ pc = "done"
    /\ calc # None
    /\ tma_anual = R(20, 100)
    /\ form.inflacao_energia = RInt(1)
    /\ calc.payback_simples_anos # Inf
    /\ RGt(calc.payback_simples_anos, RZero)

\* C10: a fetch that failed because the service was unreachable does not
\* decide later runs: a lookup made while the service is reachable returns
\* the service's data for its key.
C10_FailuresAreRetried ==
    /\ (GeocodeReturned /\ geo_up /\ NominatimSearch(form.cidade) # <<>>) =>
            /\ lat = NominatimSearch(form.cidade)[1].lat
            /\ lon = NominatimSearch(form.cidade)[1].lon
    /\ (pvgis_called /\ pvgis_up) => pvgis_data = PVcalc(lat, lon, form.perdas_sistema)

====
